---- MODULE Spec2Model ----
(***************************************************************************)
(* The application status lifecycle of the school-admissions server and    *)
(* its audit log: handlers/application_status.ts (updateApplicationStatus, *)
(* bulkUpdateApplicationStatus, getApplicationStatusHistory) and the two   *)
(* handlers of handlers/applications.ts that write the applications table  *)
(* (createApplication, submitApplication).                                 *)
(*                                                                         *)
(* Every handler is a chain of awaited SQL statements with no transaction  *)
(* around them, so each statement is one atomic step and the statements of *)
(* two requests interleave freely.  A request in flight is a "session".    *)
(* Columns modelled: applications(id, applicant_id, status, submitted_at,  *)
(* created_at, updated_at) and application_status_history(id,              *)
(* application_id, previous_status, new_status, changed_by_user_id,        *)
(* created_at); history rows are kept in insertion order, the order of     *)
(* their serial id.  The timestamps of the applications are readings of    *)
(* the millisecond clock now (new Date()); created_at of a history row is  *)
(* the database's now() of the insert statement, later than every          *)
(* created_at already in the table.                                        *)
(***************************************************************************)
EXTENDS Integers, Sequences, FiniteSets, TLC

\* ---------------------------------------------------------------- bounds
MaxApps == 2
MaxBulk == 2
MaxCalls == 2
MaxClock == 1
MaxBroadcast == 2
MaxNotifications == 3

\* ------------------------------------------------------------- constants
ApplicationStatus ==
    {"INITIAL_REGISTRATION", "DOCUMENT_UPLOAD", "SELECTION", "ANNOUNCEMENT",
     "RE_REGISTRATION"}

\* a new_status string that is not a member of the enum (bulk path only:
\* its parameter is typed ApplicationStatus | string)
InvalidStatus == "NOT_A_STATUS"

Sessions == {"s1", "s2"}

\* rows seeded in users and applicant_profiles, and the ids a caller may pass
SeededUsers == {1}
SeededProfiles == {1}
UserIds == {1, 2}
ApplicantIds == {1, 2}
ApplicationIds == 1..(MaxApps + 1)

NULL == "NULL"

\* a timestamp column that holds no time (submitted_at is nullable)
NullTime == -1

\* calls counts the status requests received so far; now is the clock read
\* by new Date(), in milliseconds
VARIABLES usersTable, applicantProfilesTable, applicationsTable,
          applicationStatusHistoryTable, notificationsTable, session, calls,
          now

vars == <<usersTable, applicantProfilesTable, applicationsTable,
          applicationStatusHistoryTable, notificationsTable, session, calls,
          now>>

\* ------------------------------------------------------------ SQL helpers
Range(s) == {s[i] : i \in DOMAIN s}

\* the ids of a bounded request list
IdLists == UNION {[1..n -> ApplicationIds] : n \in 0..MaxBulk}

\* SELECT * FROM applications WHERE id IN ids (eq(id, x) is ids = {x})
SelectApplications(table, ids) ==
    LET Match(r) == r.id \in ids IN SelectSeq(table, Match)

\* (not the code) the statuses as steps of the admission process
ProcessOrder ==
    <<"INITIAL_REGISTRATION", "DOCUMENT_UPLOAD", "SELECTION", "ANNOUNCEMENT",
      "RE_REGISTRATION">>

ProcessStep(st) == CHOOSE i \in DOMAIN ProcessOrder : ProcessOrder[i] = st

\* (not the code) an update that only moves an application forward
SetStatusForwardOnly(table, ids, st) ==
    [i \in DOMAIN table |->
        IF table[i].id \in ids /\ ProcessStep(st) >= ProcessStep(table[i].status)
        THEN [table[i] EXCEPT !.status = st, !.updated_at = now]
        ELSE table[i]]

\* (not the code) an update without its where clause
SetStatusEveryRow(table, ids, st) ==
    [i \in DOMAIN table |-> [table[i] EXCEPT !.status = st, !.updated_at = now]]

\* UPDATE applications SET status = st, updated_at = new Date()
\* WHERE id IN ids
SetStatus(table, ids, st) ==
    [i \in DOMAIN table |->
        IF table[i].id \in ids
        THEN [table[i] EXCEPT !.status = st, !.updated_at = now]
        ELSE table[i]]

\* the database's now() for the next insert into the history table
NextCreatedAt(table) ==
    LET stamps == {table[i].created_at : i \in DOMAIN table} \cup {0}
    IN 1 + CHOOSE m \in stamps : \A x \in stamps : x <= m

\* a history record with the created_at column filled in
Stamped(record, created_at) ==
    [application_id |-> record.application_id,
     previous_status |-> record.previous_status,
     new_status |-> record.new_status,
     changed_by_user_id |-> record.changed_by_user_id,
     notes |-> record.notes,
     created_at |-> created_at]

\* (not the code) an insert that replaces the rows the table already holds
\* for the same applications
InsertHistoryReplacing(table, records) ==
    LET ids == {records[i].application_id : i \in DOMAIN records}
        Kept(r) == r.application_id \notin ids
        kept == SelectSeq(table, Kept)
    IN kept \o [i \in DOMAIN records |-> Stamped(records[i], NextCreatedAt(table))]

\* (not the code) an insert that leaves out the records of a status set to
\* the value it already had
InsertHistoryOfChanges(table, records) ==
    LET Change(r) == r.previous_status # r.new_status
        changes == SelectSeq(records, Change)
    IN table \o [i \in DOMAIN changes |-> Stamped(changes[i], NextCreatedAt(table))]

\* INSERT INTO application_status_history VALUES records: one statement,
\* created_at defaults to its now()
InsertHistory(table, records) ==
    table \o [i \in DOMAIN records |-> Stamped(records[i], NextCreatedAt(table))]

\* ---------------------------------------------------------------- errors
NoError == [kind |-> "none", id |-> 0, expected |-> 0, found |-> 0]

\* mutant: the generic message of submitApplication, which names no id
NotFoundErrorUnnamed(id) ==
    [kind |-> "Application not found", id |-> 0, expected |-> 0, found |-> 0]

\* `Application with ID ${input.application_id} not found`
NotFoundError(id) ==
    [kind |-> "Application with ID {id} not found",
     id |-> id, expected |-> 0, found |-> 0]

\* `Some applications were not found. Expected ${n}, found ${m}`
PartialNotFoundError(requested, current) ==
    [kind |-> "Some applications were not found. Expected {requested}, found {found}",
     id |-> 0, expected |-> Len(requested), found |-> Len(current)]

\* applicationStatusSchema.parse throws a ZodError
ValidationError ==
    [kind |-> "ZodError", id |-> 0, expected |-> 0, found |-> 0]

\* the insert is rejected: changed_by_user_id references no users row
ForeignKeyError ==
    [kind |-> "foreign key violation", id |-> 0, expected |-> 0, found |-> 0]

\* --------------------------------------------------------------- sessions
\* pc: idle -> (update -> insert ->) done | failed -> idle.
\* atCall, historyAtCall, beforeUpdate and inserted are history variables:
\* the tables as the call found them, the applications table just before the
\* call's own UPDATE, and the positions of the history rows the call added.
IdleSession ==
    [pc |-> "idle", op |-> "none", applicationIds |-> <<>>,
     newStatus |-> NULL, changedByUserId |-> 0, notes |-> NULL,
     currentApplications |-> <<>>, updatedApplications |-> <<>>,
     error |-> NoError, returned |-> <<>>,
     userIds |-> <<>>, count |-> 0, notificationsAtCall |-> <<>>,
     atCall |-> <<>>, historyAtCall |-> <<>>, beforeUpdate |-> <<>>,
     inserted |-> {}]

InFlight(s) == session[s].pc \in {"update", "insert"}
Quiescent == \A s \in Sessions : session[s].pc = "idle"

Init ==
    /\ usersTable = SeededUsers
    /\ applicantProfilesTable = SeededProfiles
    /\ applicationsTable = <<>>
    /\ applicationStatusHistoryTable = <<>>
    /\ notificationsTable = <<>>
    /\ session = [s \in Sessions |-> IdleSession]
    /\ calls = 0
    /\ now = 0

\* ------------------------------------------------ updateApplicationStatus
\* the notes a caller may pass: none (undefined), the empty string, a text
Notes == {NULL, "", "checked by admin"}

\* notes || null: undefined and the empty string are falsy and become null
NotesOrNull(notes) == IF notes = NULL \/ notes = "" THEN NULL ELSE notes

\* currentApplication.length === 0
ApplicationMissing(currentApplication) == Len(currentApplication) = 0

\* mutant: previous_status taken from the row the update returned
HistoryRecordFromUpdatedRow(application_id, previousStatus, new_status, changedByUserId, notes) ==
    [application_id |-> application_id,
     previous_status |-> new_status,
     new_status |-> new_status,
     changed_by_user_id |-> changedByUserId,
     notes |-> NotesOrNull(notes)]

\* the values of the history insert
HistoryRecord(application_id, previousStatus, new_status, changedByUserId, notes) ==
    [application_id |-> application_id,
     previous_status |-> previousStatus,
     new_status |-> new_status,
     changed_by_user_id |-> changedByUserId,
     notes |-> NotesOrNull(notes)]

\* the call and its first statement: select the application, throw when
\* there is none
UpdateApplicationStatusSelect(s, application_id, new_status, changedByUserId, notes) ==
    LET currentApplication == SelectApplications(applicationsTable, {application_id})
        call == [IdleSession EXCEPT
                    !.op = "updateApplicationStatus",
                    !.applicationIds = <<application_id>>,
                    !.newStatus = new_status,
                    !.changedByUserId = changedByUserId,
                    !.notes = notes,
                    !.atCall = applicationsTable,
                    !.historyAtCall = applicationStatusHistoryTable]
    IN /\ session[s].pc = "idle"
       /\ calls < MaxCalls
       /\ calls' = calls + 1
       /\ IF ApplicationMissing(currentApplication)
          THEN session' = [session EXCEPT ![s] =
                    [call EXCEPT !.pc = "failed",
                                 !.error = NotFoundError(application_id)]]
          ELSE session' = [session EXCEPT ![s] =
                    [call EXCEPT !.pc = "update",
                                 !.currentApplications = currentApplication]]
       /\ UNCHANGED <<usersTable, applicantProfilesTable, notificationsTable, applicationsTable,
                      applicationStatusHistoryTable, now>>

\* second statement: update the application, returning the row
UpdateApplicationStatusUpdate(s) ==
    LET c == session[s]
        ids == Range(c.applicationIds)
    IN /\ c.pc = "update"
       /\ c.op = "updateApplicationStatus"
       /\ applicationsTable' = SetStatus(applicationsTable, ids, c.newStatus)
       /\ session' = [session EXCEPT ![s] =
                [c EXCEPT !.pc = "insert",
                          !.beforeUpdate = applicationsTable,
                          !.updatedApplications =
                              SelectApplications(applicationsTable', ids)]]
       /\ UNCHANGED <<usersTable, applicantProfilesTable, notificationsTable,
                      applicationStatusHistoryTable, calls, now>>

\* third statement: insert the history row; the foreign key on
\* changed_by_user_id rejects it when the user does not exist
UpdateApplicationStatusInsert(s) ==
    LET c == session[s]
        previousStatus == c.currentApplications[1].status
    IN /\ c.pc = "insert"
       /\ c.op = "updateApplicationStatus"
       /\ IF c.changedByUserId \in usersTable
          THEN /\ applicationStatusHistoryTable' =
                    InsertHistory(applicationStatusHistoryTable,
                                  <<HistoryRecord(c.applicationIds[1], previousStatus,
                                                  c.newStatus, c.changedByUserId,
                                                  c.notes)>>)
               /\ session' = [session EXCEPT ![s] =
                    [c EXCEPT !.pc = "done",
                              !.returned = <<c.updatedApplications[1]>>,
                              !.inserted = {Len(applicationStatusHistoryTable) + 1}]]
          ELSE /\ session' = [session EXCEPT ![s] =
                    [c EXCEPT !.pc = "failed", !.error = ForeignKeyError]]
               /\ UNCHANGED applicationStatusHistoryTable
       /\ UNCHANGED <<usersTable, applicantProfilesTable, notificationsTable, applicationsTable, calls, now>>

\* -------------------------------------------- bulkUpdateApplicationStatus
\* mutant: the existence check fails only when no application was found
NoneFound(currentApplications, applicationIds) ==
    Len(currentApplications) = 0

\* currentApplications.length !== applicationIds.length
SomeNotFound(currentApplications, applicationIds) ==
    Len(currentApplications) # Len(applicationIds)

\* mutant: every record takes the previous status of the first application
HistoryRecordsFirstPrevious(currentApplications, validatedStatus, changedByUserId, notes) ==
    [i \in DOMAIN currentApplications |->
        [application_id |-> currentApplications[i].id,
         previous_status |-> currentApplications[1].status,
         new_status |-> validatedStatus,
         changed_by_user_id |-> changedByUserId,
         notes |-> NotesOrNull(notes)]]

\* mutant: the records are mapped from the updated rows, not the rows read
HistoryRecordsFromUpdatedRows(currentApplications, validatedStatus, changedByUserId, notes) ==
    [i \in DOMAIN currentApplications |->
        [application_id |-> currentApplications[i].id,
         previous_status |-> validatedStatus,
         new_status |-> validatedStatus,
         changed_by_user_id |-> changedByUserId,
         notes |-> NotesOrNull(notes)]]

\* (not the code) only the first record carries the notes
HistoryRecordsNotesOnFirst(currentApplications, validatedStatus, changedByUserId, notes) ==
    [i \in DOMAIN currentApplications |->
        [application_id |-> currentApplications[i].id,
         previous_status |-> currentApplications[i].status,
         new_status |-> validatedStatus,
         changed_by_user_id |-> changedByUserId,
         notes |-> IF i = 1 THEN NotesOrNull(notes) ELSE NULL]]

\* currentApplications.map(app => ({...})): one record per application read
HistoryRecords(currentApplications, validatedStatus, changedByUserId, notes) ==
    [i \in DOMAIN currentApplications |->
        [application_id |-> currentApplications[i].id,
         previous_status |-> currentApplications[i].status,
         new_status |-> validatedStatus,
         changed_by_user_id |-> changedByUserId,
         notes |-> NotesOrNull(notes)]]

\* (not the code) no early return for the empty list
EmptyListNever(applicationIds) == FALSE

\* (not the code) the status taken as it comes, without the parse
IsValidStatusUnchecked(newStatus) == TRUE

\* applicationIds.length === 0
EmptyList(applicationIds) == Len(applicationIds) = 0

\* applicationStatusSchema.parse(newStatus) accepts the value
IsValidStatus(newStatus) == newStatus \in ApplicationStatus

\* the call up to its first statement: the empty list returns at once, the
\* status is validated, the applications are selected and counted
BulkUpdateApplicationStatusSelect(s, applicationIds, newStatus, changedByUserId, notes) ==
    LET currentApplications ==
            SelectApplications(applicationsTable, Range(applicationIds))
        call == [IdleSession EXCEPT
                    !.op = "bulkUpdateApplicationStatus",
                    !.applicationIds = applicationIds,
                    !.newStatus = newStatus,
                    !.changedByUserId = changedByUserId,
                    !.notes = notes,
                    !.atCall = applicationsTable,
                    !.historyAtCall = applicationStatusHistoryTable]
    IN /\ session[s].pc = "idle"
       /\ calls < MaxCalls
       /\ calls' = calls + 1
       /\ IF EmptyList(applicationIds)
          THEN session' = [session EXCEPT ![s] = [call EXCEPT !.pc = "done"]]
          ELSE IF ~IsValidStatus(newStatus)
          THEN session' = [session EXCEPT ![s] =
                    [call EXCEPT !.pc = "failed", !.error = ValidationError]]
          ELSE IF SomeNotFound(currentApplications, applicationIds)
          THEN session' = [session EXCEPT ![s] =
                    [call EXCEPT !.pc = "failed",
                                 !.error = PartialNotFoundError(applicationIds,
                                                                currentApplications)]]
          ELSE session' = [session EXCEPT ![s] =
                    [call EXCEPT !.pc = "update",
                                 !.currentApplications = currentApplications]]
       /\ UNCHANGED <<usersTable, applicantProfilesTable, notificationsTable, applicationsTable,
                      applicationStatusHistoryTable, now>>

\* update all applications of the list, returning the rows
BulkUpdateApplicationStatusUpdate(s) ==
    LET c == session[s]
        ids == Range(c.applicationIds)
    IN /\ c.pc = "update"
       /\ c.op = "bulkUpdateApplicationStatus"
       /\ applicationsTable' = SetStatus(applicationsTable, ids, c.newStatus)
       /\ session' = [session EXCEPT ![s] =
                [c EXCEPT !.pc = "insert",
                          !.beforeUpdate = applicationsTable,
                          !.updatedApplications =
                              SelectApplications(applicationsTable', ids)]]
       /\ UNCHANGED <<usersTable, applicantProfilesTable, notificationsTable,
                      applicationStatusHistoryTable, calls, now>>

\* one multi-row insert of the history records: all rows or, when the
\* foreign key on changed_by_user_id rejects it, none
BulkUpdateApplicationStatusInsert(s) ==
    LET c == session[s]
        historyRecords ==
            HistoryRecords(c.currentApplications, c.newStatus, c.changedByUserId,
                           c.notes)
        n == Len(applicationStatusHistoryTable)
    IN /\ c.pc = "insert"
       /\ c.op = "bulkUpdateApplicationStatus"
       /\ IF c.changedByUserId \in usersTable
          THEN /\ applicationStatusHistoryTable' =
                    InsertHistory(applicationStatusHistoryTable, historyRecords)
               /\ session' = [session EXCEPT ![s] =
                    [c EXCEPT !.pc = "done",
                              !.returned = c.updatedApplications,
                              !.inserted = (n + 1)..(n + Len(historyRecords))]]
          ELSE /\ session' = [session EXCEPT ![s] =
                    [c EXCEPT !.pc = "failed", !.error = ForeignKeyError]]
               /\ UNCHANGED applicationStatusHistoryTable
       /\ UNCHANGED <<usersTable, applicantProfilesTable, notificationsTable, applicationsTable, calls, now>>

\* the promise settles (return or rethrow) and the request is over
Return(s) ==
    /\ session[s].pc \in {"done", "failed"}
    /\ session' = [session EXCEPT ![s] = IdleSession]
    /\ UNCHANGED <<usersTable, applicantProfilesTable, notificationsTable, applicationsTable,
                   applicationStatusHistoryTable, calls, now>>

\* ------------------------------------------------ getApplicationStatusHistory
\* ORDER BY created_at: ascending; rows with equal created_at stay in the
\* order of the table (the database fixes no order among them)
RECURSIVE OrderByCreatedAt(_)
OrderByCreatedAt(rows) ==
    IF rows = <<>> THEN <<>>
    ELSE LET n == Len(rows)
             last == rows[n]
             front == OrderByCreatedAt(SubSeq(rows, 1, n - 1))
             Before(r) == r.created_at <= last.created_at
             After(r) == r.created_at > last.created_at
         IN SelectSeq(front, Before) \o <<last>> \o SelectSeq(front, After)

\* (not the code) the query without its orderBy: the rows in table order
GetApplicationStatusHistoryUnordered(applicationId) ==
    LET Match(r) == r.application_id = applicationId
    IN SelectSeq(applicationStatusHistoryTable, Match)

\* (not the code) the query without its where: the rows of every application
GetApplicationStatusHistoryAll(applicationId) ==
    OrderByCreatedAt(applicationStatusHistoryTable)

\* select the rows of the application ordered by created_at
GetApplicationStatusHistory(applicationId) ==
    LET Match(r) == r.application_id = applicationId
    IN OrderByCreatedAt(SelectSeq(applicationStatusHistoryTable, Match))

\* the query as a request: one select, the rows are returned, nothing is
\* written and nothing is thrown
GetApplicationStatusHistoryCall(s, applicationId) ==
    /\ session[s].pc = "idle"
    /\ session' = [session EXCEPT ![s] =
            [IdleSession EXCEPT
                !.pc = "done",
                !.op = "getApplicationStatusHistory",
                !.applicationIds = <<applicationId>>,
                !.returned = GetApplicationStatusHistory(applicationId),
                !.atCall = applicationsTable,
                !.historyAtCall = applicationStatusHistoryTable]]
    /\ UNCHANGED <<usersTable, applicantProfilesTable, notificationsTable, applicationsTable,
                   applicationStatusHistoryTable, calls, now>>

\* a history row written directly with an explicit created_at that is not
\* in the future, as the tests of the query seed them; the foreign keys of
\* the table hold
InsertHistoryRow(application_id, new_status, changedByUserId, created_at) ==
    /\ calls < MaxCalls
    /\ calls' = calls + 1
    /\ ~ApplicationMissing(SelectApplications(applicationsTable, {application_id}))
    /\ changedByUserId \in usersTable
    /\ created_at \in 0..NextCreatedAt(applicationStatusHistoryTable)
    /\ applicationStatusHistoryTable' =
            Append(applicationStatusHistoryTable,
                   Stamped(HistoryRecord(application_id, NULL, new_status,
                                         changedByUserId, NULL),
                           created_at))
    /\ UNCHANGED <<usersTable, applicantProfilesTable, notificationsTable, applicationsTable,
                   session, now>>

\* a millisecond passes
Tick ==
    /\ now < MaxClock
    /\ now' = now + 1
    /\ UNCHANGED <<usersTable, applicantProfilesTable, notificationsTable, applicationsTable,
                   applicationStatusHistoryTable, session, calls>>

\* ------------------------------------------------------- applications.ts
\* 'Applicant not found'
ApplicantNotFoundError ==
    [kind |-> "Applicant not found", id |-> 0, expected |-> 0, found |-> 0]

\* 'Application not found'
ApplicationNotFoundError ==
    [kind |-> "Application not found", id |-> 0, expected |-> 0, found |-> 0]

\* the insert is rejected: application_number is already in the table
UniqueViolationError ==
    [kind |-> "unique violation", id |-> 0, expected |-> 0, found |-> 0]

\* `APP-${applicantId}-${timestamp}`, timestamp being Date.now()
ApplicationNumber(applicantId, timestamp) == <<"APP", applicantId, timestamp>>

\* the unique constraint on applications.application_number
NumberTaken(applicationNumber) ==
    \E i \in DOMAIN applicationsTable :
        applicationsTable[i].application_number = applicationNumber

\* the values of the insert; id, created_at and updated_at take their
\* defaults (serial, defaultNow)
NewApplication(applicantId, timestamp) ==
    [id |-> Len(applicationsTable) + 1,
     applicant_id |-> applicantId,
     application_number |-> ApplicationNumber(applicantId, timestamp),
     status |-> "INITIAL_REGISTRATION",
     submitted_at |-> NullTime,
     created_at |-> now,
     updated_at |-> now]

\* what createApplication throws: 'Applicant not found' for an unknown
\* profile, the database's error when the number is taken
CreateApplicationError(applicantId, timestamp) ==
    IF applicantId \notin applicantProfilesTable THEN ApplicantNotFoundError
    ELSE IF NumberTaken(ApplicationNumber(applicantId, timestamp))
    THEN UniqueViolationError
    ELSE NoError

\* the insert of createApplication, when nothing is thrown
CreateApplicationWrite(applicantId, timestamp) ==
    applicationsTable' =
        IF CreateApplicationError(applicantId, timestamp) = NoError
        THEN Append(applicationsTable, NewApplication(applicantId, timestamp))
        ELSE applicationsTable

\* createApplication at clock reading timestamp, its outcome not recorded
CreateApplication(applicantId, timestamp) ==
    /\ Len(applicationsTable) < MaxApps
    /\ CreateApplicationWrite(applicantId, timestamp)
    /\ UNCHANGED <<usersTable, applicantProfilesTable,
                   applicationStatusHistoryTable, notificationsTable,
                   session, calls, now>>

\* createApplication as a request whose outcome is kept until it settles
CreateApplicationCall(s, applicantId, timestamp) ==
    LET error == CreateApplicationError(applicantId, timestamp)
    IN /\ session[s].pc = "idle"
       /\ Len(applicationsTable) < MaxApps
       /\ CreateApplicationWrite(applicantId, timestamp)
       /\ session' = [session EXCEPT ![s] =
            [IdleSession EXCEPT
                !.pc = IF error = NoError THEN "done" ELSE "failed",
                !.op = "createApplication",
                !.applicationIds = <<applicantId>>,
                !.error = error,
                !.returned = IF error = NoError
                             THEN <<NewApplication(applicantId, timestamp)>>
                             ELSE <<>>,
                !.atCall = applicationsTable,
                !.historyAtCall = applicationStatusHistoryTable]]
       /\ UNCHANGED <<usersTable, applicantProfilesTable,
                      applicationStatusHistoryTable, notificationsTable,
                      calls, now>>

\* (not the code) a submission that only acts on an application that is
\* still in INITIAL_REGISTRATION
SubmittedFromRegistration(application) ==
    IF application.status = "INITIAL_REGISTRATION"
    THEN [application EXCEPT !.status = "DOCUMENT_UPLOAD",
                             !.submitted_at = now,
                             !.updated_at = now]
    ELSE application

\* set({status: 'DOCUMENT_UPLOAD', submitted_at: new Date(),
\* updated_at: new Date()})
Submitted(application) ==
    [application EXCEPT !.status = "DOCUMENT_UPLOAD",
                        !.submitted_at = now,
                        !.updated_at = now]

\* the update of submitApplication; nothing is written for an unknown id,
\* and no history row is written at all
SubmitApplicationWrite(applicationId) ==
    applicationsTable' =
        IF ApplicationMissing(SelectApplications(applicationsTable, {applicationId}))
        THEN applicationsTable
        ELSE [i \in DOMAIN applicationsTable |->
                 IF applicationsTable[i].id = applicationId
                 THEN Submitted(applicationsTable[i])
                 ELSE applicationsTable[i]]

\* submitApplication, its outcome not recorded
SubmitApplication(applicationId) ==
    /\ SubmitApplicationWrite(applicationId)
    /\ UNCHANGED <<usersTable, applicantProfilesTable,
                   applicationStatusHistoryTable, notificationsTable,
                   session, calls, now>>

\* submitApplication as a request whose outcome is kept until it settles:
\* 'Application not found' for an unknown id, else the updated row
SubmitApplicationCall(s, applicationId) ==
    LET missing ==
            ApplicationMissing(SelectApplications(applicationsTable, {applicationId}))
    IN /\ session[s].pc = "idle"
       /\ SubmitApplicationWrite(applicationId)
       /\ session' = [session EXCEPT ![s] =
            [IdleSession EXCEPT
                !.pc = IF missing THEN "failed" ELSE "done",
                !.op = "submitApplication",
                !.applicationIds = <<applicationId>>,
                !.error = IF missing THEN ApplicationNotFoundError ELSE NoError,
                !.returned = SelectApplications(applicationsTable', {applicationId}),
                !.atCall = applicationsTable,
                !.historyAtCall = applicationStatusHistoryTable]]
       /\ UNCHANGED <<usersTable, applicantProfilesTable,
                      applicationStatusHistoryTable, notificationsTable,
                      calls, now>>

\* ------------------------------------------------------- notifications.ts
\* Columns modelled: notifications(id, user_id, is_read); title and message
\* are copied from the request to every row and never read by the handlers.
\* Each handler runs as one step: its requests are executed one at a time.

\* the users the notification tests seed, and the ids a caller may pass
NotifiedUsers == {1, 2}
NotificationUserIds == {1, 2, 3}
UserIdLists == UNION {[1..n -> NotificationUserIds] : n \in 0..MaxBroadcast}

InitNotifications ==
    /\ usersTable = NotifiedUsers
    /\ applicantProfilesTable = SeededProfiles
    /\ applicationsTable = <<>>
    /\ applicationStatusHistoryTable = <<>>
    /\ notificationsTable = <<>>
    /\ session = [s \in Sessions |-> IdleSession]
    /\ calls = 0
    /\ now = 0

\* 'User not found'
UserNotFoundError ==
    [kind |-> "User not found", id |-> 0, expected |-> 0, found |-> 0]

\* 'Notification not found'
NotificationNotFoundError ==
    [kind |-> "Notification not found", id |-> 0, expected |-> 0, found |-> 0]

\* 'One or more users not found'
UsersNotFoundError ==
    [kind |-> "One or more users not found", id |-> 0, expected |-> 0, found |-> 0]

\* the ids of a set of users as the rows of a select, in id order
RECURSIVE UserRows(_)
UserRows(users) ==
    IF users = {} THEN <<>>
    ELSE LET u == CHOOSE x \in users : \A y \in users : x <= y
         IN <<u>> \o UserRows(users \ {u})

\* INSERT INTO notifications VALUES (user_id, title, message) for each of
\* userIds: serial ids, is_read defaults to false
InsertNotifications(table, userIds) ==
    table \o [i \in DOMAIN userIds |->
                 [id |-> Len(table) + i, user_id |-> userIds[i], is_read |-> FALSE]]

\* a request record for the notification handlers
NotificationCall(op, userIds) ==
    [IdleSession EXCEPT !.op = op, !.userIds = userIds,
                        !.notificationsAtCall = notificationsTable]

\* createNotification: 'User not found' for an unknown user, else one
\* unread notification
CreateNotification(s, user_id) ==
    LET call == NotificationCall("createNotification", <<user_id>>)
    IN /\ session[s].pc = "idle"
       /\ Len(notificationsTable) < MaxNotifications
       /\ IF user_id \notin usersTable
          THEN /\ session' = [session EXCEPT ![s] =
                    [call EXCEPT !.pc = "failed", !.error = UserNotFoundError]]
               /\ UNCHANGED notificationsTable
          ELSE /\ notificationsTable' =
                    InsertNotifications(notificationsTable, <<user_id>>)
               /\ session' = [session EXCEPT ![s] =
                    [call EXCEPT !.pc = "done",
                                 !.returned = <<notificationsTable'[
                                                  Len(notificationsTable')]>>]]
       /\ UNCHANGED <<usersTable, applicantProfilesTable, applicationsTable,
                      applicationStatusHistoryTable, calls, now>>

\* markNotificationAsRead: sets is_read of the notification, 'Notification
\* not found' when the update returns no row
MarkNotificationAsRead(s, notificationId) ==
    LET call == NotificationCall("markNotificationAsRead", <<>>)
        found == \E i \in DOMAIN notificationsTable :
                     notificationsTable[i].id = notificationId
    IN /\ session[s].pc = "idle"
       /\ notificationsTable' =
            [i \in DOMAIN notificationsTable |->
                IF notificationsTable[i].id = notificationId
                THEN [notificationsTable[i] EXCEPT !.is_read = TRUE]
                ELSE notificationsTable[i]]
       /\ session' = [session EXCEPT ![s] =
            IF found
            THEN [call EXCEPT !.pc = "done",
                              !.returned = <<notificationsTable'[notificationId]>>]
            ELSE [call EXCEPT !.pc = "failed", !.error = NotificationNotFoundError]]
       /\ UNCHANGED <<usersTable, applicantProfilesTable, applicationsTable,
                      applicationStatusHistoryTable, calls, now>>

\* (not the code) the update without the user_id condition
MarkedReadForEveryone(table, userId) ==
    [i \in DOMAIN table |-> [table[i] EXCEPT !.is_read = TRUE]]

\* UPDATE notifications SET is_read = true WHERE user_id = userId AND
\* is_read = false
MarkedRead(table, userId) ==
    [i \in DOMAIN table |->
        IF table[i].user_id = userId /\ ~table[i].is_read
        THEN [table[i] EXCEPT !.is_read = TRUE]
        ELSE table[i]]

\* the rows the update returns: those it changed
UpdatedRows(table, updated) ==
    {i \in DOMAIN table : table[i] # updated[i]}

\* markAllNotificationsAsRead: 'User not found' for an unknown user, else
\* the number of rows the update returned
MarkAllNotificationsAsRead(s, userId) ==
    LET call == NotificationCall("markAllNotificationsAsRead", <<userId>>)
        result == MarkedRead(notificationsTable, userId)
    IN /\ session[s].pc = "idle"
       /\ IF userId \notin usersTable
          THEN /\ session' = [session EXCEPT ![s] =
                    [call EXCEPT !.pc = "failed", !.error = UserNotFoundError]]
               /\ UNCHANGED notificationsTable
          ELSE /\ notificationsTable' = result
               /\ session' = [session EXCEPT ![s] =
                    [call EXCEPT !.pc = "done",
                                 !.count = Cardinality(
                                     UpdatedRows(notificationsTable, result))]]
       /\ UNCHANGED <<usersTable, applicantProfilesTable, applicationsTable,
                      applicationStatusHistoryTable, calls, now>>

\* the users selected by where(conditions.length === 1 ? conditions[0] :
\* and(...conditions)), one condition eq(users.id, userId) per listed id:
\* a user is selected when its id equals every listed id; and() of no
\* condition is no where clause
ExistingUsers(targetUserIds) ==
    {u \in usersTable : \A i \in DOMAIN targetUserIds : u = targetUserIds[i]}

\* broadcastNotification: listed is FALSE when userIds is not passed
BroadcastNotification(s, listed, userIds) ==
    LET call == NotificationCall("broadcastNotification", userIds)
        targetUserIds == IF listed THEN userIds ELSE UserRows(usersTable)
        missing == listed /\
                   Cardinality(ExistingUsers(targetUserIds)) # Len(targetUserIds)
    IN /\ session[s].pc = "idle"
       /\ listed \/ userIds = <<>>
       /\ Len(notificationsTable) + Len(targetUserIds) <= MaxNotifications
       /\ IF missing
          THEN /\ session' = [session EXCEPT ![s] =
                    [call EXCEPT !.pc = "failed", !.error = UsersNotFoundError]]
               /\ UNCHANGED notificationsTable
          ELSE /\ notificationsTable' =
                    InsertNotifications(notificationsTable, targetUserIds)
               /\ session' = [session EXCEPT ![s] =
                    [call EXCEPT !.pc = "done",
                                 !.returned =
                                     SubSeq(notificationsTable',
                                            Len(notificationsTable) + 1,
                                            Len(notificationsTable'))]]
       /\ UNCHANGED <<usersTable, applicantProfilesTable, applicationsTable,
                      applicationStatusHistoryTable, calls, now>>

\* --------------------------------------------------------- specifications
\* a request arrives on a free session, with any input
CallUpdate(sessions, users, notes) ==
    \E s \in sessions, id \in ApplicationIds, st \in ApplicationStatus,
       u \in users, n \in notes :
        UpdateApplicationStatusSelect(s, id, st, u, n)

CallBulk(sessions, users, notes) ==
    \E s \in sessions, ids \in IdLists,
       st \in ApplicationStatus \cup {InvalidStatus}, u \in users,
       n \in notes :
        BulkUpdateApplicationStatusSelect(s, ids, st, u, n)

\* a request in flight runs its next statement
StepUpdate ==
    \E s \in Sessions :
        \/ UpdateApplicationStatusUpdate(s)
        \/ UpdateApplicationStatusInsert(s)

StepBulk ==
    \E s \in Sessions :
        \/ BulkUpdateApplicationStatusUpdate(s)
        \/ BulkUpdateApplicationStatusInsert(s)

Settle == \E s \in Sessions : Return(s)

\* createApplication; each creation reads a later time of Date.now()
Create == \E a \in ApplicantIds : CreateApplication(a, Len(applicationsTable))

Submit == \E id \in ApplicationIds : SubmitApplication(id)

\* createApplication at the time of the clock
CreateNow == \E a \in ApplicantIds : CreateApplication(a, now)

\* the server: requests interleave statement by statement
Query(sessions) ==
    \E s \in sessions, id \in ApplicationIds :
        GetApplicationStatusHistoryCall(s, id)

SeedHistory ==
    \E id \in ApplicationIds, st \in ApplicationStatus, u \in SeededUsers,
       t \in 0..(MaxCalls + 1) :
        InsertHistoryRow(id, st, u, t)

Next ==
    \/ CallUpdate(Sessions, UserIds, {NULL})
    \/ CallBulk(Sessions, UserIds, {NULL})
    \/ Query(Sessions)
    \/ StepUpdate
    \/ StepBulk
    \/ Settle
    \/ Create
    \/ Submit
    \/ Tick
    \/ \E s \in Sessions, u \in NotificationUserIds : CreateNotification(s, u)
    \/ \E s \in Sessions, n \in 1..(MaxNotifications + 1) :
           MarkNotificationAsRead(s, n)
    \/ \E s \in Sessions, u \in NotificationUserIds :
           MarkAllNotificationsAsRead(s, u)
    \/ \E s \in Sessions, listed \in BOOLEAN, userIds \in UserIdLists :
           BroadcastNotification(s, listed, userIds)

Spec == Init /\ [][Next]_vars

\* requests executed one after another: a request starts only when no other
\* is in flight
NextSeq ==
    \/ Quiescent /\ CallUpdate({"s1"}, UserIds, {NULL})
    \/ Quiescent /\ CallBulk({"s1"}, UserIds, {NULL})
    \/ StepUpdate
    \/ StepBulk
    \/ Settle
    \/ Quiescent /\ Create
    \/ Quiescent /\ Submit

SpecSeq == Init /\ [][NextSeq]_vars

\* status requests that all succeed once their applications exist (the acting
\* user exists), one after another, on applications that have no history
\* rows before their first status request (submitApplication only before it)
SubmitFresh ==
    \E id \in ApplicationIds :
        /\ GetApplicationStatusHistory(id) = <<>>
        /\ SubmitApplication(id)

NextChain ==
    \/ Quiescent /\ CallUpdate({"s1"}, SeededUsers, {NULL})
    \/ Quiescent /\ CallBulk({"s1"}, SeededUsers, {NULL})
    \/ StepUpdate
    \/ StepBulk
    \/ Settle
    \/ Quiescent /\ Create
    \/ Quiescent /\ SubmitFresh

SpecChain == Init /\ [][NextChain]_vars

\* concurrent updateApplicationStatus requests by an existing user
NextRace ==
    \/ CallUpdate(Sessions, SeededUsers, {NULL})
    \/ StepUpdate
    \/ Settle
    \/ Create

SpecRace == Init /\ [][NextRace]_vars

\* bulkUpdateApplicationStatus concurrent with updateApplicationStatus or
\* with another bulk request, by an existing user
NextBulkRace ==
    \/ CallUpdate(Sessions, SeededUsers, {NULL})
    \/ CallBulk(Sessions, SeededUsers, {NULL})
    \/ StepUpdate
    \/ StepBulk
    \/ Settle
    \/ Create

SpecBulkRace == Init /\ [][NextBulkRace]_vars

\* the history query between status requests that succeed, on a table that
\* also holds rows written directly in any order of created_at
NextHistory ==
    \/ Quiescent /\ CallUpdate({"s1"}, SeededUsers, {NULL})
    \/ Quiescent /\ CallBulk({"s1"}, SeededUsers, {NULL})
    \/ Quiescent /\ Query({"s1"})
    \/ StepUpdate
    \/ StepBulk
    \/ Settle
    \/ Quiescent /\ Create
    \/ Quiescent /\ SeedHistory

SpecHistory == Init /\ [][NextHistory]_vars

\* status requests and submissions one after another while the clock runs
NextClock ==
    \/ Quiescent /\ CallUpdate({"s1"}, SeededUsers, {NULL})
    \/ Quiescent /\ CallBulk({"s1"}, SeededUsers, {NULL})
    \/ StepUpdate
    \/ StepBulk
    \/ Settle
    \/ Quiescent /\ CreateNow
    \/ Quiescent /\ Submit
    \/ Tick

SpecClock == Init /\ [][NextClock]_vars

\* status requests with and without notes, by an existing user, one after
\* another
NextNotes ==
    \/ Quiescent /\ CallUpdate({"s1"}, SeededUsers, Notes)
    \/ Quiescent /\ CallBulk({"s1"}, SeededUsers, Notes)
    \/ StepUpdate
    \/ StepBulk
    \/ Settle
    \/ Quiescent /\ Create

SpecNotes == Init /\ [][NextNotes]_vars

\* createApplication and submitApplication as requests, between status
\* updates by an existing user, one request after another while the clock
\* runs
CallCreate(sessions) ==
    \E s \in sessions, a \in ApplicantIds : CreateApplicationCall(s, a, now)

CallSubmit(sessions) ==
    \E s \in sessions, id \in ApplicationIds : SubmitApplicationCall(s, id)

NextApply ==
    \/ Quiescent /\ CallCreate({"s1"})
    \/ Quiescent /\ CallSubmit({"s1"})
    \/ Quiescent /\ CallUpdate({"s1"}, SeededUsers, {NULL})
    \/ StepUpdate
    \/ Settle
    \/ Tick

SpecApply == Init /\ [][NextApply]_vars

\* the notification requests, one after another
NextNotifications ==
    \/ Quiescent /\ \E u \in NotificationUserIds : CreateNotification("s1", u)
    \/ Quiescent /\ \E n \in 1..(MaxNotifications + 1) :
                        MarkNotificationAsRead("s1", n)
    \/ Quiescent /\ \E u \in NotificationUserIds :
                        MarkAllNotificationsAsRead("s1", u)
    \/ Quiescent /\ \E listed \in BOOLEAN, userIds \in UserIdLists :
                        BroadcastNotification("s1", listed, userIds)
    \/ Settle

SpecNotifications == InitNotifications /\ [][NextNotifications]_vars

\* ------------------------------------------------------------- properties
Completed(s) == session[s].pc \in {"done", "failed"}

IsUpdate(s) == session[s].op = "updateApplicationStatus"
IsBulk(s) == session[s].op = "bulkUpdateApplicationStatus"

\* ids that matched an application when the call of s arrived
ExistingAtCall(s) == {session[s].atCall[i].id : i \in DOMAIN session[s].atCall}

\* the status of application id in a snapshot of the applications table
StatusIn(table, id) == table[id].status

\* C1: a completed updateApplicationStatus has run its update of the
\* application if and only if it has inserted its history row: no request
\* ends with one of the two writes done and the other missing (SpecSeq).
C1_UpdateAndInsertTogether ==
    \A s \in Sessions :
        (IsUpdate(s) /\ Completed(s)) =>
            ((session[s].updatedApplications # <<>>) <=> (session[s].inserted # {}))

\* C2: when an updateApplicationStatus by user u on an existing application
\* A has succeeded, A.status is the requested new_status and the history
\* table is the table the call found plus exactly one row: application_id A,
\* previous_status A's status when the call arrived, new_status the requested
\* one, changed_by_user_id u (SpecSeq).
C2_SuccessfulUpdateRecordsTransition ==
    \A s \in Sessions :
        (IsUpdate(s) /\ session[s].pc = "done") =>
            LET c == session[s]
                id == c.applicationIds[1]
            IN /\ id \in ExistingAtCall(s)
               /\ StatusIn(applicationsTable, id) = c.newStatus
               /\ applicationStatusHistoryTable =
                    Append(c.historyAtCall,
                           [application_id |-> id,
                            previous_status |-> StatusIn(c.atCall, id),
                            new_status |-> c.newStatus,
                            changed_by_user_id |-> c.changedByUserId,
                            notes |-> NULL,
                            created_at |-> NextCreatedAt(c.historyAtCall)])

\* a successful update that moved an application away from a status it had
\* reached through an earlier transition
C2_Witness ==
    \E s \in Sessions :
        /\ IsUpdate(s)
        /\ session[s].pc = "done"
        /\ session[s].historyAtCall # <<>>
        /\ StatusIn(session[s].atCall, session[s].applicationIds[1])
             \notin {session[s].newStatus, "INITIAL_REGISTRATION"}

\* the rows form a chain: each new_status is the next row's previous_status
Chained(rows) ==
    \A i \in 1..(Len(rows) - 1) : rows[i].new_status = rows[i + 1].previous_status

\* C3: after any sequence of successful updateApplicationStatus and
\* bulkUpdateApplicationStatus requests executed one after another on
\* applications that started with no history rows, each application's
\* history rows in created_at order form a chain, and the last row's
\* new_status is the application's current status (SpecChain).
C3_HistoryChain ==
    (\A s \in Sessions : ~InFlight(s)) =>
        \A i \in DOMAIN applicationsTable :
            LET rows == GetApplicationStatusHistory(applicationsTable[i].id)
            IN /\ Chained(rows)
               /\ rows # <<>> =>
                    rows[Len(rows)].new_status = applicationsTable[i].status

\* an application with two transitions, one of them made by a bulk request
\* over two applications
C3_Witness ==
    /\ Quiescent
    /\ Len(applicationStatusHistoryTable) = 3
    /\ \E i \in DOMAIN applicationsTable :
          LET rows == GetApplicationStatusHistory(applicationsTable[i].id)
          IN /\ Len(rows) = 2
             /\ rows[1].previous_status # rows[1].new_status
             /\ rows[2].previous_status # rows[2].new_status

\* C4: for every interleaving of two concurrent updateApplicationStatus
\* requests on the same application, the row a request inserted records as
\* previous_status the status the application held immediately before that
\* request's own update (SpecRace).
C4_NoStalePreviousStatus ==
    \A s \in Sessions :
        (IsUpdate(s) /\ session[s].pc = "done") =>
            \A i \in session[s].inserted :
                applicationStatusHistoryTable[i].previous_status =
                    StatusIn(session[s].beforeUpdate,
                             applicationStatusHistoryTable[i].application_id)

\* C5: once the concurrent updateApplicationStatus requests have completed,
\* the new_status of each application's most recent history row is the
\* application's current status (SpecRace).
C5_LastRowIsCurrentStatus ==
    (\A s \in Sessions : ~InFlight(s)) =>
        \A i \in DOMAIN applicationsTable :
            LET rows == GetApplicationStatusHistory(applicationsTable[i].id)
            IN rows # <<>> =>
                 rows[Len(rows)].new_status = applicationsTable[i].status

\* C6: a bulkUpdateApplicationStatus whose id list names an id that matches
\* no application fails and leaves the applications and the history table
\* exactly as the call found them, the applications of the list that exist
\* included; with a new_status of the enum the error is 'Some applications
\* were not found. Expected {requested}, found {found}', requested the
\* length of the list and found the number of applications selected (a
\* new_status outside the enum is rejected by validation before the
\* lookup) (SpecSeq).
C6_BulkMissingIdChangesNothing ==
    \A s \in Sessions :
        (IsBulk(s) /\ session[s].pc # "idle"
           /\ Range(session[s].applicationIds) \ ExistingAtCall(s) # {}) =>
            LET c == session[s]
            IN /\ c.pc = "failed"
               /\ applicationsTable = c.atCall
               /\ applicationStatusHistoryTable = c.historyAtCall
               /\ c.newStatus \in ApplicationStatus =>
                    /\ c.error.kind =
                         "Some applications were not found. Expected {requested}, found {found}"
                    /\ c.error.expected = Len(c.applicationIds)
                    /\ c.error.found =
                         Cardinality(Range(c.applicationIds) \cap ExistingAtCall(s))

\* a failed bulk request over one existing and one missing id, the existing
\* application already having a history row
C6_Witness ==
    \E s \in Sessions :
        /\ IsBulk(s)
        /\ session[s].pc = "failed"
        /\ session[s].newStatus \in ApplicationStatus
        /\ Len(session[s].applicationIds) = 2
        /\ Range(session[s].applicationIds) \cap ExistingAtCall(s) # {}
        /\ Range(session[s].applicationIds) \ ExistingAtCall(s) # {}
        /\ session[s].error.found = 1
        /\ applicationStatusHistoryTable # <<>>

\* C7: a successful bulkUpdateApplicationStatus inserts one history row per
\* targeted application, and each row's previous_status is that
\* application's own status when the call arrived (SpecSeq).
C7_BulkRecordsOwnPreviousStatus ==
    \A s \in Sessions :
        (IsBulk(s) /\ session[s].pc = "done") =>
            LET c == session[s]
            IN /\ Cardinality(c.inserted) = Len(c.applicationIds)
               /\ {applicationStatusHistoryTable[i].application_id : i \in c.inserted}
                    = Range(c.applicationIds)
               /\ \A i \in c.inserted :
                    applicationStatusHistoryTable[i].previous_status =
                        StatusIn(c.atCall,
                                 applicationStatusHistoryTable[i].application_id)

\* a successful bulk request over two applications that had different
\* statuses, neither of them the new one
C7_Witness ==
    \E s \in Sessions :
        /\ IsBulk(s)
        /\ session[s].pc = "done"
        /\ Len(session[s].applicationIds) = 2
        /\ StatusIn(session[s].atCall, 1) # StatusIn(session[s].atCall, 2)
        /\ StatusIn(session[s].atCall, 1) # session[s].newStatus
        /\ StatusIn(session[s].atCall, 2) # session[s].newStatus

\* C8: a completed bulkUpdateApplicationStatus over a non-empty list either
\* left every targeted application with the new status and every history
\* row of the batch inserted, or changed no targeted application and
\* inserted no history row (SpecSeq).
C8_BulkAllOrNothing ==
    \A s \in Sessions :
        (IsBulk(s) /\ Completed(s) /\ session[s].applicationIds # <<>>) =>
            LET c == session[s]
                ids == Range(c.applicationIds)
            IN \/ /\ \A id \in ids :
                        /\ id \in DOMAIN applicationsTable
                        /\ StatusIn(applicationsTable, id) = c.newStatus
                  /\ Cardinality(c.inserted) = Len(c.applicationIds)
               \/ /\ applicationsTable = c.atCall
                  /\ c.inserted = {}

\* C9: for every interleaving of a bulkUpdateApplicationStatus with another
\* status request on one of its applications, each row the bulk request
\* inserted records as previous_status the status that application held
\* immediately before the bulk request's own update (SpecBulkRace).
C9_BulkNoStalePreviousStatus ==
    \A s \in Sessions :
        (IsBulk(s) /\ session[s].pc = "done") =>
            \A i \in session[s].inserted :
                applicationStatusHistoryTable[i].previous_status =
                    StatusIn(session[s].beforeUpdate,
                             applicationStatusHistoryTable[i].application_id)

\* C10: an updateApplicationStatus whose application_id matches no
\* application fails with 'Application with ID {id} not found' naming that
\* id, and leaves the applications and the history table exactly as the call
\* found them (SpecSeq).
C10_UpdateMissingIdFails ==
    \A s \in Sessions :
        (IsUpdate(s) /\ session[s].pc # "idle"
           /\ session[s].applicationIds[1] \notin ExistingAtCall(s)) =>
            LET c == session[s]
            IN /\ c.pc = "failed"
               /\ c.error.kind = "Application with ID {id} not found"
               /\ c.error.id = c.applicationIds[1]
               /\ applicationsTable = c.atCall
               /\ applicationStatusHistoryTable = c.historyAtCall

\* a failed update of a missing id while another application exists and has
\* a history row
C10_Witness ==
    \E s \in Sessions :
        /\ IsUpdate(s)
        /\ session[s].pc = "failed"
        /\ session[s].applicationIds[1] \notin ExistingAtCall(s)
        /\ session[s].atCall # <<>>
        /\ session[s].historyAtCall # <<>>

\* the history rows of application id, in the order of the table
RowsOf(table, id) ==
    LET Match(r) == r.application_id = id
    IN SelectSeq(table, Match)

\* C11: whenever a step changes the status of an existing application, the
\* same step adds exactly one history row, of that application, recording
\* the status before and the status after, or the row is the next statement
\* of the request that made the change (SpecChain).
C11_StatusChangeHasHistoryRow ==
    [][\A i \in DOMAIN applicationsTable :
          LET before == applicationsTable[i]
              after == applicationsTable'[i]
          IN (after.status # before.status) =>
                \/ \E s \in Sessions :
                       /\ session'[s].pc = "insert"
                       /\ before.id \in Range(session'[s].applicationIds)
                \/ /\ Len(applicationStatusHistoryTable') =
                        Len(applicationStatusHistoryTable) + 1
                   /\ LET row == applicationStatusHistoryTable'[
                                     Len(applicationStatusHistoryTable')]
                      IN /\ row.application_id = before.id
                         /\ row.previous_status = before.status
                         /\ row.new_status = after.status]_vars

\* C12: the history table is an append log: every step leaves each row it
\* already holds in place with all its fields, and can only add rows after
\* them (SpecSeq).
C12_HistoryAppendOnly ==
    [][/\ Len(applicationStatusHistoryTable') >= Len(applicationStatusHistoryTable)
       /\ SubSeq(applicationStatusHistoryTable', 1,
                 Len(applicationStatusHistoryTable)) =
            applicationStatusHistoryTable]_vars

\* a second transition of one application has been recorded after its first
C12_Witness ==
    \E i, j \in DOMAIN applicationStatusHistoryTable :
        /\ i < j
        /\ applicationStatusHistoryTable[i].application_id =
             applicationStatusHistoryTable[j].application_id

IsQuery(s) == session[s].op = "getApplicationStatusHistory"

\* how many times row x occurs in the sequence rows
Occurrences(rows, x) == Cardinality({i \in DOMAIN rows : rows[i] = x})

\* the two sequences hold the same rows, each as many times
SameRows(a, b) ==
    \A x \in Range(a) \cup Range(b) : Occurrences(a, x) = Occurrences(b, x)

\* C13: getApplicationStatusHistory(id) returns the rows of the history
\* table whose application_id is id, each of them once and no other row,
\* and a row never comes before a row with a smaller created_at, in
\* whatever order the table holds them (SpecHistory).
C13_HistoryOfApplicationInOrder ==
    \A s \in Sessions :
        (IsQuery(s) /\ session[s].pc = "done") =>
            LET returned == session[s].returned
                id == session[s].applicationIds[1]
            IN /\ SameRows(returned, RowsOf(applicationStatusHistoryTable, id))
               /\ \A i, j \in DOMAIN returned :
                      i < j => returned[i].created_at <= returned[j].created_at

\* a query over a table that holds the rows of the application in another
\* order than created_at, next to a row of another application
C13_Witness ==
    \E s \in Sessions :
        /\ IsQuery(s)
        /\ session[s].pc = "done"
        /\ Len(session[s].returned) >= 2
        /\ session[s].returned #
             RowsOf(applicationStatusHistoryTable, session[s].applicationIds[1])
        /\ Len(applicationStatusHistoryTable) > Len(session[s].returned)

\* C14: a getApplicationStatusHistory for an id that has no history row,
\* whether the id is an application without transitions or matches no
\* application at all, returns the empty list without an error and leaves
\* the applications and the history table as it found them (SpecHistory).
C14_NoHistoryIsEmptyList ==
    \A s \in Sessions :
        (IsQuery(s) /\ session[s].pc # "idle"
           /\ RowsOf(session[s].historyAtCall, session[s].applicationIds[1]) = <<>>) =>
            /\ session[s].pc = "done"
            /\ session[s].error = NoError
            /\ session[s].returned = <<>>
            /\ applicationsTable = session[s].atCall
            /\ applicationStatusHistoryTable = session[s].historyAtCall

\* the query for an application that exists and has no history row, while
\* another application has one
C14_Witness ==
    \E s \in Sessions :
        /\ IsQuery(s)
        /\ session[s].pc = "done"
        /\ session[s].applicationIds[1] \in ExistingAtCall(s)
        /\ RowsOf(session[s].historyAtCall, session[s].applicationIds[1]) = <<>>
        /\ session[s].historyAtCall # <<>>

\* C15: a bulkUpdateApplicationStatus with an empty id list, whatever its
\* new_status (valid or not) and its user (existing or not), ends at once
\* with the empty list and no error: it has selected nothing, updated
\* nothing, inserted nothing, and both tables are as it found them
\* (SpecSeq).
C15_BulkEmptyListReturnsEmpty ==
    \A s \in Sessions :
        (IsBulk(s) /\ session[s].pc # "idle"
           /\ session[s].applicationIds = <<>>) =>
            /\ session[s].pc = "done"
            /\ session[s].error = NoError
            /\ session[s].returned = <<>>
            /\ session[s].currentApplications = <<>>
            /\ session[s].updatedApplications = <<>>
            /\ session[s].inserted = {}
            /\ applicationsTable = session[s].atCall
            /\ applicationStatusHistoryTable = session[s].historyAtCall

\* an empty bulk request with a status outside the enum and a user that does
\* not exist, while applications exist
C15_Witness ==
    \E s \in Sessions :
        /\ IsBulk(s)
        /\ session[s].pc = "done"
        /\ session[s].applicationIds = <<>>
        /\ session[s].newStatus = InvalidStatus
        /\ session[s].changedByUserId \notin usersTable
        /\ applicationsTable # <<>>

\* C16: a bulkUpdateApplicationStatus with a non-empty id list and a
\* new_status that is not one of the five statuses fails with the validation
\* error, having selected, updated and inserted nothing: both tables are as
\* it found them, so the value has reached no row as some valid status
\* (SpecSeq).
C16_BulkInvalidStatusRejected ==
    \A s \in Sessions :
        (IsBulk(s) /\ session[s].pc # "idle"
           /\ session[s].applicationIds # <<>>
           /\ session[s].newStatus \notin ApplicationStatus) =>
            /\ session[s].pc = "failed"
            /\ session[s].error = ValidationError
            /\ session[s].currentApplications = <<>>
            /\ session[s].updatedApplications = <<>>
            /\ session[s].inserted = {}
            /\ applicationsTable = session[s].atCall
            /\ applicationStatusHistoryTable = session[s].historyAtCall

\* a rejected bulk request whose ids all exist and whose user exists: only
\* its status is wrong
C16_Witness ==
    \E s \in Sessions :
        /\ IsBulk(s)
        /\ session[s].pc = "failed"
        /\ session[s].newStatus = InvalidStatus
        /\ Len(session[s].applicationIds) = 2
        /\ Range(session[s].applicationIds) = ExistingAtCall(s)
        /\ session[s].changedByUserId \in usersTable

\* the request of s names applications that all exist, each once, with a
\* valid status
WellFormed(s) ==
    /\ session[s].applicationIds # <<>>
    /\ Range(session[s].applicationIds) \subseteq ExistingAtCall(s)
    /\ Cardinality(Range(session[s].applicationIds)) = Len(session[s].applicationIds)
    /\ session[s].newStatus \in ApplicationStatus

\* C17: a completed updateApplicationStatus or bulkUpdateApplicationStatus
\* by an existing user on existing applications has succeeded, and for each
\* of its applications whose status already was the requested new_status it
\* has added exactly one history row, with previous_status and new_status
\* both equal to that status (SpecChain).
C17_SameStatusIsRecorded ==
    \A s \in Sessions :
        ((IsUpdate(s) \/ IsBulk(s)) /\ Completed(s) /\ WellFormed(s)) =>
            LET c == session[s]
                added == SubSeq(applicationStatusHistoryTable,
                                Len(c.historyAtCall) + 1,
                                Len(applicationStatusHistoryTable))
            IN /\ c.pc = "done"
               /\ \A id \in Range(c.applicationIds) :
                      (StatusIn(c.atCall, id) = c.newStatus) =>
                          /\ Len(RowsOf(added, id)) = 1
                          /\ RowsOf(added, id)[1].previous_status = c.newStatus
                          /\ RowsOf(added, id)[1].new_status = c.newStatus
                          /\ StatusIn(applicationsTable, id) = c.newStatus

\* a bulk request that found one application already in the requested
\* status, reached by an earlier transition, and the other in another status
C17_Witness ==
    \E s \in Sessions :
        /\ IsBulk(s)
        /\ session[s].pc = "done"
        /\ Len(session[s].applicationIds) = 2
        /\ session[s].historyAtCall # <<>>
        /\ \E i, j \in DOMAIN session[s].atCall :
              /\ session[s].atCall[i].status = session[s].newStatus
              /\ session[s].atCall[j].status # session[s].newStatus

\* C18: a completed updateApplicationStatus by an existing user on an
\* existing application has succeeded and the application is in the
\* requested new_status, whatever status it was in and whatever status was
\* requested: any of the five after any of the five (SpecChain).
C18_AnyTransitionSucceeds ==
    \A s \in Sessions :
        (IsUpdate(s) /\ Completed(s)
           /\ session[s].applicationIds[1] \in ExistingAtCall(s)) =>
            /\ session[s].pc = "done"
            /\ session[s].error = NoError
            /\ session[s].returned # <<>>
            /\ session[s].returned[1].status = session[s].newStatus
            /\ StatusIn(applicationsTable, session[s].applicationIds[1]) =
                 session[s].newStatus

\* an application taken from the last status of the process back to the
\* first
C18_Witness ==
    \E s \in Sessions :
        /\ IsUpdate(s)
        /\ session[s].pc = "done"
        /\ session[s].applicationIds[1] \in ExistingAtCall(s)
        /\ StatusIn(session[s].atCall, session[s].applicationIds[1]) = "RE_REGISTRATION"
        /\ session[s].newStatus = "INITIAL_REGISTRATION"

\* C19: once submitted_at of an application holds a time, no step changes
\* it (SpecClock).
C19_SubmittedAtSetOnce ==
    [][\A i \in DOMAIN applicationsTable :
          (applicationsTable[i].submitted_at # NullTime) =>
              applicationsTable'[i].submitted_at =
                  applicationsTable[i].submitted_at]_vars

\* C20: every step that runs the status update of a request on an
\* application, or that changes the row of an application in any other way
\* (submitApplication), leaves the application with an updated_at greater
\* than the one it had (SpecClock).
C20_UpdatedAtStrictlyIncreases ==
    [][\A i \in DOMAIN applicationsTable :
          LET before == applicationsTable[i]
              after == applicationsTable'[i]
              updatedByRequest ==
                  \E s \in Sessions :
                      /\ session[s].pc = "update"
                      /\ session'[s].pc = "insert"
                      /\ before.id \in Range(session[s].applicationIds)
          IN (updatedByRequest \/ after # before) =>
                 after.updated_at > before.updated_at]_vars

\* the history rows the completed request of s has added
AddedBy(s) ==
    SubSeq(applicationStatusHistoryTable, Len(session[s].historyAtCall) + 1,
           Len(applicationStatusHistoryTable))

\* C21: every history row added by a successful updateApplicationStatus or
\* bulkUpdateApplicationStatus stores null when the request had no notes and
\* otherwise exactly the string of the request, the empty string included
\* (SpecNotes).
C21_NotesStoredAsGiven ==
    \A s \in Sessions :
        ((IsUpdate(s) \/ IsBulk(s)) /\ session[s].pc = "done") =>
            \A i \in DOMAIN AddedBy(s) :
                AddedBy(s)[i].notes = session[s].notes

IsCreate(s) == session[s].op = "createApplication"
IsSubmit(s) == session[s].op = "submitApplication"

\* C22: a completed createApplication for an applicant id that has a
\* profile has succeeded and has added one application, after those the
\* table held, with status INITIAL_REGISTRATION, no submitted_at and no
\* history row; for an applicant id that has no profile it has failed with
\* 'Applicant not found' and the applications are as it found them
\* (SpecApply).
C22_CreateApplicationOutcome ==
    \A s \in Sessions :
        (IsCreate(s) /\ Completed(s)) =>
            LET c == session[s]
                n == Len(c.atCall)
            IN IF c.applicationIds[1] \in applicantProfilesTable
               THEN /\ c.pc = "done"
                    /\ Len(applicationsTable) = n + 1
                    /\ SubSeq(applicationsTable, 1, n) = c.atCall
                    /\ applicationsTable[n + 1].applicant_id = c.applicationIds[1]
                    /\ applicationsTable[n + 1].status = "INITIAL_REGISTRATION"
                    /\ applicationsTable[n + 1].submitted_at = NullTime
                    /\ RowsOf(applicationStatusHistoryTable,
                              applicationsTable[n + 1].id) = <<>>
                    /\ applicationStatusHistoryTable = c.historyAtCall
               ELSE /\ c.pc = "failed"
                    /\ c.error = ApplicantNotFoundError
                    /\ applicationsTable = c.atCall
                    /\ applicationStatusHistoryTable = c.historyAtCall

\* C23: a completed createApplication for an applicant id that has a
\* profile has succeeded, at whatever time and after whatever other
\* creations, and no two applications have the same application_number
\* (SpecApply).
C23_ApplicationNumberUnique ==
    /\ \A s \in Sessions :
           (IsCreate(s) /\ Completed(s)
              /\ session[s].applicationIds[1] \in applicantProfilesTable) =>
               session[s].pc = "done"
    /\ \A i, j \in DOMAIN applicationsTable :
           (i # j) => applicationsTable[i].application_number #
                        applicationsTable[j].application_number

\* C24: a completed updateApplicationStatus or bulkUpdateApplicationStatus
\* on existing applications by a user id that matches no user has failed,
\* and every application it named has the status and the updated_at it had
\* when the call arrived (SpecSeq).
C24_RejectedInsertRestoresApplications ==
    \A s \in Sessions :
        ((IsUpdate(s) \/ IsBulk(s)) /\ Completed(s) /\ WellFormed(s)
           /\ session[s].changedByUserId \notin usersTable) =>
            /\ session[s].pc = "failed"
            /\ \A id \in Range(session[s].applicationIds) :
                   /\ StatusIn(applicationsTable, id) = StatusIn(session[s].atCall, id)
                   /\ applicationsTable[id].updated_at = session[s].atCall[id].updated_at

\* C25: a completed bulkUpdateApplicationStatus by an existing user with a
\* valid status and a non-empty list whose ids all exist, whether or not an
\* id is named more than once, has succeeded and every application it named
\* has the new status (SpecChain).
C25_BulkFailsOnlyForMissingIds ==
    \A s \in Sessions :
        (IsBulk(s) /\ Completed(s)
           /\ session[s].applicationIds # <<>>
           /\ Range(session[s].applicationIds) \subseteq ExistingAtCall(s)
           /\ session[s].newStatus \in ApplicationStatus) =>
            /\ session[s].pc = "done"
            /\ \A id \in Range(session[s].applicationIds) :
                   StatusIn(applicationsTable, id) = session[s].newStatus

\* C26: a successful bulkUpdateApplicationStatus over a non-empty list of n
\* ids has returned n applications, every application of the list has the
\* new status, and the call has added exactly n history rows, one for each
\* application of the list, all with the requested new_status, the
\* requesting user and the same notes (SpecNotes).
C26_BulkOneRowPerApplication ==
    \A s \in Sessions :
        (IsBulk(s) /\ session[s].pc = "done" /\ session[s].applicationIds # <<>>) =>
            LET c == session[s]
                n == Len(c.applicationIds)
                added == AddedBy(s)
            IN /\ Cardinality(Range(c.applicationIds)) = n
               /\ Len(c.returned) = n
               /\ {c.returned[i].id : i \in DOMAIN c.returned} = Range(c.applicationIds)
               /\ \A i \in DOMAIN c.returned : c.returned[i].status = c.newStatus
               /\ \A id \in Range(c.applicationIds) :
                      /\ StatusIn(applicationsTable, id) = c.newStatus
                      /\ Len(RowsOf(added, id)) = 1
               /\ Len(added) = n
               /\ \A i \in DOMAIN added :
                      /\ added[i].new_status = c.newStatus
                      /\ added[i].changed_by_user_id = c.changedByUserId
                      /\ added[i].notes = added[1].notes
                      /\ (c.notes \notin {NULL, ""}) => added[i].notes = c.notes

\* a successful bulk request with notes over two applications that were in
\* different statuses
C26_Witness ==
    \E s \in Sessions :
        /\ IsBulk(s)
        /\ session[s].pc = "done"
        /\ Len(session[s].applicationIds) = 2
        /\ session[s].notes \notin {NULL, ""}
        /\ StatusIn(session[s].atCall, 1) # StatusIn(session[s].atCall, 2)

\* C27: after a successful updateApplicationStatus or
\* bulkUpdateApplicationStatus the applications table holds the same
\* applications; those the call named differ from what they were at most in
\* status and updated_at, all others are unchanged; the history rows the
\* call found are all still there, unchanged, and a single update has added
\* one row after them (SpecClock).
C27_UpdateChangesOnlyItsApplications ==
    \A s \in Sessions :
        ((IsUpdate(s) \/ IsBulk(s)) /\ session[s].pc = "done") =>
            LET c == session[s]
            IN /\ DOMAIN applicationsTable = DOMAIN c.atCall
               /\ \A i \in DOMAIN c.atCall :
                      IF c.atCall[i].id \in Range(c.applicationIds)
                      THEN applicationsTable[i] =
                             [c.atCall[i] EXCEPT
                                 !.status = applicationsTable[i].status,
                                 !.updated_at = applicationsTable[i].updated_at]
                      ELSE applicationsTable[i] = c.atCall[i]
               /\ SubSeq(applicationStatusHistoryTable, 1, Len(c.historyAtCall)) =
                    c.historyAtCall
               /\ IsUpdate(s) => Len(AddedBy(s)) = 1

\* a successful update, at a later time, of a submitted application while
\* another application and an earlier history row exist
C27_Witness ==
    \E s \in Sessions :
        /\ IsUpdate(s)
        /\ session[s].pc = "done"
        /\ Len(session[s].atCall) = 2
        /\ session[s].historyAtCall # <<>>
        /\ session[s].atCall[session[s].applicationIds[1]].submitted_at # NullTime
        /\ session[s].returned[1].updated_at >
             session[s].atCall[session[s].applicationIds[1]].updated_at

\* C28: a completed submitApplication for an id that matched an application
\* has succeeded, returning that application, which now has status
\* DOCUMENT_UPLOAD and a submitted_at, whatever its status was; for an id
\* that matched no application it has failed with 'Application not found'
\* and both tables are as it found them (SpecApply).
C28_SubmitApplicationOutcome ==
    \A s \in Sessions :
        (IsSubmit(s) /\ Completed(s)) =>
            LET c == session[s]
                id == c.applicationIds[1]
            IN IF id \in ExistingAtCall(s)
               THEN /\ c.pc = "done"
                    /\ StatusIn(applicationsTable, id) = "DOCUMENT_UPLOAD"
                    /\ applicationsTable[id].submitted_at # NullTime
                    /\ c.returned = <<applicationsTable[id]>>
               ELSE /\ c.pc = "failed"
                    /\ c.error = ApplicationNotFoundError
                    /\ applicationsTable = c.atCall
                    /\ applicationStatusHistoryTable = c.historyAtCall

\* a submission of an application that had been moved to SELECTION,
\* ANNOUNCEMENT or RE_REGISTRATION
C28_Witness ==
    \E s \in Sessions :
        /\ IsSubmit(s)
        /\ session[s].pc = "done"
        /\ StatusIn(session[s].atCall, session[s].applicationIds[1]) \in
             {"SELECTION", "ANNOUNCEMENT", "RE_REGISTRATION"}

IsBroadcast(s) == session[s].op = "broadcastNotification"
IsMarkAll(s) == session[s].op = "markAllNotificationsAsRead"

\* the notifications the completed request of s has added
NotifiedBy(s) ==
    SubSeq(notificationsTable, Len(session[s].notificationsAtCall) + 1,
           Len(notificationsTable))

\* the unread notifications of user u in a notifications table
UnreadOf(table, u) ==
    {i \in DOMAIN table : table[i].user_id = u /\ ~table[i].is_read}

\* C29: a completed broadcastNotification with a non-empty list of distinct
\* user ids has, when all of them exist, succeeded and added exactly one
\* unread notification for each listed user and nothing else, whether the
\* list names one user or two; when some listed id matches no user it has
\* failed with 'One or more users not found' and added nothing
\* (SpecNotifications).
C29_BroadcastToListedUsers ==
    \A s \in Sessions :
        (IsBroadcast(s) /\ Completed(s) /\ session[s].userIds # <<>>
           /\ Cardinality(Range(session[s].userIds)) = Len(session[s].userIds)) =>
            LET c == session[s]
                added == NotifiedBy(s)
            IN IF Range(c.userIds) \subseteq usersTable
               THEN /\ c.pc = "done"
                    /\ Len(added) = Len(c.userIds)
                    /\ c.returned = added
                    /\ \A u \in Range(c.userIds) :
                           Cardinality({i \in DOMAIN added :
                                           added[i].user_id = u}) = 1
                    /\ \A i \in DOMAIN added : ~added[i].is_read
                    /\ SubSeq(notificationsTable, 1, Len(c.notificationsAtCall)) =
                         c.notificationsAtCall
               ELSE /\ c.pc = "failed"
                    /\ c.error = UsersNotFoundError
                    /\ notificationsTable = c.notificationsAtCall

\* C30: a completed markAllNotificationsAsRead(u) for an existing user has
\* succeeded and returned the number of unread notifications u had when it
\* was called; u has no unread notification left; u's notifications differ
\* from what they were only in is_read and every other user's notification
\* is unchanged; and when u had no unread notification, as right after an
\* earlier markAllNotificationsAsRead(u), it has returned 0 and the table
\* is as it found it (SpecNotifications).
C30_MarkAllReadCountsAndIsIdempotent ==
    \A s \in Sessions :
        (IsMarkAll(s) /\ Completed(s) /\ session[s].userIds[1] \in usersTable) =>
            LET c == session[s]
                u == c.userIds[1]
                old == c.notificationsAtCall
            IN /\ c.pc = "done"
               /\ c.count = Cardinality(UnreadOf(old, u))
               /\ UnreadOf(notificationsTable, u) = {}
               /\ DOMAIN notificationsTable = DOMAIN old
               /\ \A i \in DOMAIN old :
                      IF old[i].user_id = u
                      THEN notificationsTable[i] = [old[i] EXCEPT !.is_read = TRUE]
                      ELSE notificationsTable[i] = old[i]
               /\ (UnreadOf(old, u) = {}) =>
                      (c.count = 0 /\ notificationsTable = old)

\* markAllNotificationsAsRead for a user with two unread notifications
\* while another user has an unread one
C30_Witness ==
    \E s \in Sessions :
        /\ IsMarkAll(s)
        /\ session[s].pc = "done"
        /\ session[s].count = 2
        /\ \E v \in usersTable :
              /\ v # session[s].userIds[1]
              /\ UnreadOf(notificationsTable, v) # {}

====
